---- MODULE Spec2Model ----
(***************************************************************************)
(* Phantom Material Designer: the inverse-design app                       *)
(* (src/app/inverse_design_app.py) and the plotting script                 *)
(* (src/scripts/plot_elastic_modulus_vs_thinner_concentration.py).         *)
(*                                                                         *)
(* Numbers.  Elastic moduli are integers (kPa) and targets are exact       *)
(* rationals <<num, den>>.  Thinner concentrations of measurements are     *)
(* integers (percent); the interpolant and the root finder work on the     *)
(* grid of 1/Res percent, so a grid position x stands for the              *)
(* concentration x / Res.  The interpolant is evaluated exactly.           *)
(***************************************************************************)
EXTENDS Integers, Sequences, FiniteSets, TLC

VARIABLES
    phantoms,        \* list of (label, family, thinner_pct, E_mean)
    E_target,        \* the number_input widget, a rational
    mode,            \* the radio widget
    chosen_family,   \* the selectbox widget, or None
    families,        \* result of build_family_models
    all_measured,    \* value-sorted list of (E, label, fam, t)
    feasible,        \* list of the families whose range holds the target
    feasible_sorted, \* feasible, filtered through FAMILIES_ORDER
    banner,          \* the headline st.success / st.error / st.warning wrote
    recipes,         \* list of recipes written: [fam, t_star, E_pred]
    bounds,          \* <<lower, upper>> written, or None when no bounds were
    raised,          \* the exception that ended the script run, or None
    probe,           \* result of a direct call of evaluate / invert_family
    sample_labels,          \* the sample_label column of a table, each a tuple of characters
    appParse,        \* what the app's loader makes of each label
    scriptParse      \* what the plotting script's loader makes of each label

vars == <<phantoms, E_target, mode, chosen_family, families, all_measured,
          feasible, feasible_sorted, banner, recipes, bounds, raised,
          probe, sample_labels, appParse, scriptParse>>

appVars == <<E_target, mode, chosen_family, families, all_measured,
             feasible, feasible_sorted, banner, recipes, bounds, raised>>

labelVars == <<sample_labels, appParse, scriptParse>>

\* ------------------------------------------------------------- bounds

\* rows of the data table
MaxRows == 3
\* measured thinner concentrations are 0 .. MaxT percent
MaxT == 2
\* measured moduli are 1 .. MaxE kPa
MaxE == 3
\* digits 0 .. MaxDigit appear in the concentration part of a label
MaxDigit == 5
\* grid positions per percent of thinner
Res == 2

\* ---------------------------------------------------------- constants

\* Python's None where a measurement tuple may stand, and the empty result
None == <<>>
\* no exception, no banner, no family chosen
Nothing == "None"
Unset == "Unset"
\* float nan: the rational with denominator 0
NaN == <<0, 0>>

FAMILIES_ORDER == <<"EF50", "EF30", "EF10">>

AUTO == "Auto-select family (if feasible)"
FORCE == "Force a specific family"

\* families a data table may name: two of the app's and one it does not list
DataFamilies == {"EF10", "EF30", "A10"}

\* -------------------------------------------------------- arithmetic

Abs(x) == IF x < 0 THEN -x ELSE x

Sign(x) == IF x < 0 THEN -1 ELSE IF x > 0 THEN 1 ELSE 0

RECURSIVE GCD(_, _)
GCD(a, b) == IF b = 0 THEN a ELSE GCD(b, a % b)

\* n/d with the common factor g taken out and the sign in the numerator
Reduced(n, d, g) ==
    IF d < 0 THEN <<(-n) \div g, (-d) \div g>> ELSE <<n \div g, d \div g>>

\* the rational n/d in lowest terms with a positive denominator; nan stays nan
Rat(n, d) ==
    IF d = 0 THEN NaN
    ELSE IF n = 0 THEN <<0, 1>>
    ELSE Reduced(n, d, GCD(Abs(n), Abs(d)))

RInt(n) == <<n, 1>>
RSub(a, b) == Rat(a[1] * b[2] - b[1] * a[2], a[2] * b[2])
RSign(a) == Sign(a[1])
RLeq(a, b) == a[1] * b[2] <= b[1] * a[2]
RLess(a, b) == a[1] * b[2] < b[1] * a[2]

SeqMin(s) == CHOOSE x \in {s[i] : i \in DOMAIN s} : \A i \in DOMAIN s : x <= s[i]
SeqMax(s) == CHOOSE x \in {s[i] : i \in DOMAIN s} : \A i \in DOMAIN s : x >= s[i]

\* the list s with x put after the last element whose key is <= key(x)
RECURSIVE InsertByKey(_, _, _)
InsertByKey(s, x, k) ==
    IF s = <<>> THEN <<x>>
    ELSE IF s[Len(s)][k] <= x[k] THEN Append(s, x)
    ELSE Append(InsertByKey(SubSeq(s, 1, Len(s) - 1), x, k), s[Len(s)])

\* sorted(s, key=lambda x: x[k]): ascending and stable
RECURSIVE SortedByKey(_, _)
SortedByKey(s, k) ==
    IF s = <<>> THEN <<>>
    ELSE InsertByKey(SortedByKey(SubSeq(s, 1, Len(s) - 1), k), s[Len(s)], k)

\* the rows of s whose family (field 2) is fam, in order
RECURSIVE SelectSeqBy(_, _)
SelectSeqBy(s, fam) ==
    IF s = <<>> THEN <<>>
    ELSE SelectSeqBy(SubSeq(s, 1, Len(s) - 1), fam)
         \o (IF s[Len(s)][2] = fam THEN <<s[Len(s)]>> ELSE <<>>)

\* ------------------------------------------- scipy PchipInterpolator

\* hk and mk of PchipInterpolator._find_derivatives: knot spacing and secant slope
Hk(x, k) == x[k + 1] - x[k]
Mk(x, y, k) == Rat(y[k + 1] - y[k], Hk(x, k))

\* PchipInterpolator._edge_case, with num / den the three-point estimate
\* d = ((2 h0 + h1) m0 - h0 m1) / (h0 + h1): 0 when d's sign is not m0's,
\* 3 m0 when the slopes change sign and |d| > 3 |m0|, else d
EdgeClip(m0, m1, num, den) ==
    IF Sign(num) # Sign(m0[1]) THEN <<0, 1>>
    ELSE IF Sign(m0[1]) # Sign(m1[1]) /\ Abs(num) * m0[2] > 3 * Abs(m0[1]) * den
    THEN Rat(3 * m0[1], m0[2])
    ELSE Rat(num, den)

EdgeCase(h0, h1, m0, m1) ==
    EdgeClip(m0, m1,
             (2 * h0 + h1) * m0[1] * m1[2] - h0 * m1[1] * m0[2],
             m0[2] * m1[2] * (h0 + h1))

\* the interior derivative between secant slopes m0 and m1: 0 at a local
\* extremum or beside a flat interval, else the weighted harmonic mean
\* (w1 + w2) / (w1 / m0 + w2 / m1)
HarmonicMean(w1, w2, m0, m1) ==
    IF Sign(m0[1]) # Sign(m1[1]) \/ m0[1] = 0 \/ m1[1] = 0
    THEN <<0, 1>>
    ELSE Rat((w1 + w2) * m0[1] * m1[1],
             w1 * m0[2] * m1[1] + w2 * m1[2] * m0[1])

InteriorDk(x, y, k) ==
    HarmonicMean(2 * Hk(x, k) + Hk(x, k - 1), Hk(x, k) + 2 * Hk(x, k - 1),
                 Mk(x, y, k - 1), Mk(x, y, k))

\* PchipInterpolator._find_derivatives
FindDerivatives(x, y) ==
    IF Len(x) = 2 THEN <<Mk(x, y, 1), Mk(x, y, 1)>>
    ELSE [k \in 1..Len(x) |->
            IF k = 1
            THEN EdgeCase(Hk(x, 1), Hk(x, 2), Mk(x, y, 1), Mk(x, y, 2))
            ELSE IF k = Len(x)
            THEN EdgeCase(Hk(x, k - 1), Hk(x, k - 2),
                          Mk(x, y, k - 1), Mk(x, y, k - 2))
            ELSE InteriorDk(x, y, k)]

\* PchipInterpolator(x, y, extrapolate=False): refuses fewer than two knots
\* and knots that are not strictly increasing
PchipInterpolator(x, y) ==
    IF Len(x) < 2 \/ \E k \in 1..(Len(x) - 1) : x[k] >= x[k + 1]
    THEN [ok |-> FALSE]
    ELSE [ok |-> TRUE, x |-> x, y |-> y, dk |-> FindDerivatives(x, y)]

\* the interval of grid position g: the last knot at or left of g, the final
\* knot counting to the interval before it
Interval(f, g) ==
    CHOOSE k \in 1..(Len(f.x) - 1) :
        /\ f.x[k] * Res <= g
        /\ \A j \in (k + 1)..(Len(f.x) - 1) : f.x[j] * Res > g

Cube(u) == u * u * u

\* y0 h00(s) + h d0 h10(s) + y1 h01(s) + h d1 h11(s) at s = u / hh, for an
\* interval of h percent (hh grid positions), end values y0, y1 and end
\* derivatives d0, d1: over the common denominator
HermiteAt(u, hh, h, y0, y1, d0, d1) ==
    Rat((y0 * (2 * Cube(u) - 3 * u * u * hh + Cube(hh))
           + y1 * (3 * u * u * hh - 2 * Cube(u))) * d0[2] * d1[2]
          + h * (d0[1] * (Cube(u) - 2 * u * u * hh + u * hh * hh) * d1[2]
                   + d1[1] * (Cube(u) - u * u * hh) * d0[2]),
        Cube(hh) * d0[2] * d1[2])

\* the cubic Hermite polynomial of interval k at grid position g
Hermite(f, k, g) ==
    HermiteAt(g - f.x[k] * Res, Hk(f.x, k) * Res, Hk(f.x, k),
              f.y[k], f.y[k + 1], f.dk[k], f.dk[k + 1])

\* the interpolator as extrapolate=True would make it: the end polynomials
\* carried on past the knots
CallExtrapolating(f, g) ==
    IF g < f.x[1] * Res THEN Hermite(f, 1, g)
    ELSE IF g > f.x[Len(f.x)] * Res THEN Hermite(f, Len(f.x) - 1, g)
    ELSE Hermite(f, Interval(f, g), g)

\* f(t) for an interpolator built with extrapolate=False: nan outside the knots
Call(f, g) ==
    IF g < f.x[1] * Res \/ g > f.x[Len(f.x)] * Res THEN NaN
    ELSE Hermite(f, Interval(f, g), g)

\* ----------------------------------------------------- scipy brentq

\* g(t) = float(f(t) - E_target) of invert_family, at grid position g
G(f, target, g) == RSub(Call(f, g), target)

\* of the two ends of a closed bracket, the one where |g| is smaller
Nearer(lo, hi, glo, ghi) ==
    IF Abs(glo[1]) * ghi[2] <= Abs(ghi[1]) * glo[2] THEN lo ELSE hi

\* closing in on the sign change between grid positions lo and hi (slo: the
\* sign of g at lo, sm: at mid) until the two are neighbours
RECURSIVE Bisect(_, _, _, _, _)
\* the narrowing that keeps the half without the sign change
NarrowWrongHalf(f, target, lo, hi, slo, mid, sm) ==
    IF sm = 0 THEN mid
    ELSE IF sm = slo THEN Bisect(f, target, lo, mid, slo)
    ELSE Bisect(f, target, mid, hi, slo)

Narrow(f, target, lo, hi, slo, mid, sm) ==
    IF sm = 0 THEN mid
    ELSE IF sm = slo THEN Bisect(f, target, mid, hi, slo)
    ELSE Bisect(f, target, lo, mid, slo)

Bisect(f, target, lo, hi, slo) ==
    IF hi - lo <= 1
    THEN Nearer(lo, hi, G(f, target, lo), G(f, target, hi))
    ELSE Narrow(f, target, lo, hi, slo, (lo + hi) \div 2,
                RSign(G(f, target, (lo + hi) \div 2)))

\* brentq without its test of the signs at the ends
BrentqNoSignCheck(f, target, a, b, fa, fb) ==
    IF fa = 0 THEN [ok |-> TRUE, root |-> a]
    ELSE IF fb = 0 THEN [ok |-> TRUE, root |-> b]
    ELSE [ok |-> TRUE, root |-> Bisect(f, target, a, b, fa)]

\* brentq once g(a) and g(b) are known (fa, fb: their signs): an end that is
\* a root is returned, ends of the same sign are refused, otherwise the
\* bracket is narrowed onto a sign change
BrentqFrom(f, target, a, b, fa, fb) ==
    IF fa * fb > 0 THEN [ok |-> FALSE]
    ELSE IF fa = 0 THEN [ok |-> TRUE, root |-> a]
    ELSE IF fb = 0 THEN [ok |-> TRUE, root |-> b]
    ELSE [ok |-> TRUE, root |-> Bisect(f, target, a, b, fa)]

\* brentq(g, a, b) for g(t) = f(t) - target
Brentq(f, target, a, b) ==
    BrentqFrom(f, target, a, b, RSign(G(f, target, a)), RSign(G(f, target, b)))

\* ------------------------------------------------------ app helpers

\* keys of the dict build_family_models fills: families by first appearance
RECURSIVE FamilyKeys(_)
AddKey(keys, fam) ==
    IF \E i \in DOMAIN keys : keys[i] = fam THEN keys ELSE Append(keys, fam)

FamilyKeys(ph) ==
    IF ph = <<>> THEN <<>>
    ELSE AddKey(FamilyKeys(SubSeq(ph, 1, Len(ph) - 1)), ph[Len(ph)][2])

\* a family's entry once its arrays are sorted: the interpolator and the
\* measured domain and range
ModelOf(t, E, labels) ==
    [t |-> t, E |-> E, labels |-> labels,
     interp |-> PchipInterpolator(t, E),
     tmin |-> SeqMin(t), tmax |-> SeqMax(t),
     Emin |-> SeqMin(E), Emax |-> SeqMax(E)]

\* the family's rows in np.argsort order of concentration, taken apart
SortedModel(rows) ==
    ModelOf([i \in DOMAIN rows |-> rows[i][3]],
            [i \in DOMAIN rows |-> rows[i][4]],
            [i \in DOMAIN rows |-> rows[i][1]])

FamilyModel(ph, fam) == SortedModel(SortedByKey(SelectSeqBy(ph, fam), 3))

\* the dict returned, unless the interpolator refused a family: that
\* ValueError ends the build
Built(keys, d) ==
    IF \E fam \in DOMAIN d : ~d[fam].interp.ok
    THEN [ok |-> FALSE]
    ELSE [ok |-> TRUE, keys |-> keys, d |-> d]

BuildFor(ph, keys) ==
    Built(keys, [fam \in {keys[i] : i \in DOMAIN keys} |-> FamilyModel(ph, fam)])

build_family_models(ph) == BuildFor(ph, FamilyKeys(ph))

\* the pair invert_family returns for brentq's result r
Predicted(f, r) ==
    IF ~r.ok THEN [ok |-> FALSE]
    ELSE [ok |-> TRUE, t_star |-> r.root, E_pred |-> Call(f, r.root)]

\* invert_family: the root of f(t) - E_target bracketed by [tmin, tmax],
\* and the interpolant's value there
invert_family(family_model, target) ==
    Predicted(family_model.interp,
              Brentq(family_model.interp, target,
                     family_model.tmin * Res, family_model.tmax * Res))

\* the scan that keeps overwriting upper
RECURSIVE NearestScanNoGuard(_, _, _, _, _)
NearestScanNoGuard(am, target, i, lower, upper) ==
    IF i > Len(am) THEN <<lower, upper>>
    ELSE NearestScanNoGuard(am, target, i + 1,
            IF RLeq(RInt(am[i][1]), target) THEN am[i] ELSE lower,
            IF RLeq(target, RInt(am[i][1])) THEN am[i] ELSE upper)

\* the scan that takes only strictly smaller measurements for lower
RECURSIVE NearestScanStrictLower(_, _, _, _, _)
NearestScanStrictLower(am, target, i, lower, upper) ==
    IF i > Len(am) THEN <<lower, upper>>
    ELSE NearestScanStrictLower(am, target, i + 1,
            IF RLess(RInt(am[i][1]), target) THEN am[i] ELSE lower,
            IF RLeq(target, RInt(am[i][1])) /\ upper = None THEN am[i] ELSE upper)

\* nearest_bounds: one pass over the value-sorted list
RECURSIVE NearestScan(_, _, _, _, _)
NearestScan(am, target, i, lower, upper) ==
    IF i > Len(am) THEN <<lower, upper>>
    ELSE NearestScan(am, target, i + 1,
            IF RLeq(RInt(am[i][1]), target) THEN am[i] ELSE lower,
            IF RLeq(target, RInt(am[i][1])) /\ upper = None THEN am[i] ELSE upper)

nearest_bounds(am, target) == NearestScan(am, target, 1, None, None)

\* the module-level index: sorted(... key=lambda x: x[0])
AllMeasured(ph) ==
    SortedByKey([i \in DOMAIN ph |-> <<ph[i][4], ph[i][1], ph[i][2], ph[i][3]>>], 1)

\* the range test with its ends left out
InRangeStrict(d, target) == RLess(RInt(d.Emin), target) /\ RLess(target, RInt(d.Emax))

\* d["Emin"] <= E_target <= d["Emax"]
InRange(d, target) == RLeq(RInt(d.Emin), target) /\ RLeq(target, RInt(d.Emax))

\* feasible: the dict's families, in its order, whose range holds the target
RECURSIVE Feasible(_, _, _)
Feasible(fams, target, i) ==
    IF i > Len(fams.keys) THEN <<>>
    ELSE (IF InRange(fams.d[fams.keys[i]], target) THEN <<fams.keys[i]>> ELSE <<>>)
         \o Feasible(fams, target, i + 1)

\* feasible_sorted: the listed families that are feasible, in the listed order
FeasibleSorted(feas) ==
    SelectSeq(FAMILIES_ORDER, LAMBDA f : \E i \in DOMAIN feas : feas[i] = f)

\* --------------------------------------------------- the script run

Recipe(fam, r) == [fam |-> fam, t_star |-> r.t_star, E_pred |-> r.E_pred]

\* the auto-select loop over feasible_sorted: each recipe is written as it is
\* found, and the first root-finder refusal ends the loop and the run
RECURSIVE AutoRecipes(_, _, _, _, _)
AutoStep(fams, fs, target, i, acc, r) ==
    IF ~r.ok THEN [recipes |-> acc, raised |-> "ValueError"]
    ELSE AutoRecipes(fams, fs, target, i + 1, Append(acc, Recipe(fs[i], r)))

AutoRecipes(fams, fs, target, i, acc) ==
    IF i > Len(fs) THEN [recipes |-> acc, raised |-> Nothing]
    ELSE AutoStep(fams, fs, target, i, acc, invert_family(fams.d[fs[i]], target))

\* the force-a-family branch when the family covers the target
ForceRecipe(fam, r) ==
    IF ~r.ok
    THEN [banner |-> Nothing, recipes |-> <<>>, bounds |-> None,
          raised |-> "ValueError"]
    ELSE [banner |-> "Feasible within family", recipes |-> <<Recipe(fam, r)>>,
          bounds |-> None, raised |-> Nothing]

\* the force-a-family branch
ForceBranch(fams, am, target, fam) ==
    IF fam \notin DOMAIN fams.d
    THEN [banner |-> Nothing, recipes |-> <<>>, bounds |-> None, raised |-> "KeyError"]
    ELSE IF InRange(fams.d[fam], target)
    THEN ForceRecipe(fam, invert_family(fams.d[fam], target))
    ELSE [banner |-> "family cannot cover target", recipes |-> <<>>,
          bounds |-> nearest_bounds(am, target), raised |-> Nothing]

AutoCovered(r) ==
    [banner |-> "Covered by validated data", recipes |-> r.recipes,
     bounds |-> None, raised |-> r.raised]

\* the auto-select branch
AutoBranch(fams, am, fs, target) ==
    IF fs # <<>>
    THEN AutoCovered(AutoRecipes(fams, fs, target, 1, <<>>))
    ELSE [banner |-> "Target is in a non-validated gap", recipes |-> <<>>,
          bounds |-> nearest_bounds(am, target), raised |-> Nothing]

\* the result column
ResultColumn(fams, am, fs, target, m, chosen) ==
    IF m = FORCE THEN ForceBranch(fams, am, target, chosen)
    ELSE AutoBranch(fams, am, fs, target)

\* the module-level names after the models are built
Page(fams, am, feas, fs, out) ==
    [families |-> fams, all_measured |-> am, feasible |-> feas,
     feasible_sorted |-> fs, banner |-> out.banner, recipes |-> out.recipes,
     bounds |-> out.bounds, raised |-> out.raised]

PageFrom(fams, am, fs, feas, target, m, chosen) ==
    Page(fams, am, feas, fs, ResultColumn(fams, am, fs, target, m, chosen))

PageFor(ph, fams, feas, target, m, chosen) ==
    PageFrom(fams, AllMeasured(ph), FeasibleSorted(feas), feas, target, m, chosen)

\* the script from build_family_models on; a build that raises leaves nothing
ScriptFrom(ph, fams, target, m, chosen) ==
    IF ~fams.ok
    THEN [families |-> fams, all_measured |-> <<>>, feasible |-> <<>>,
          feasible_sorted |-> <<>>, banner |-> Nothing, recipes |-> <<>>,
          bounds |-> None, raised |-> "ValueError"]
    ELSE PageFor(ph, fams, Feasible(fams, target, 1), target, m, chosen)

Script(ph, target, m, chosen) ==
    ScriptFrom(ph, build_family_models(ph), target, m, chosen)

\* One run of the app's script on a fresh page with the widgets at
\* (target, m, chosen): models are built, the index is sorted, the feasible
\* families are found and the result column is written.
Run(target, m, chosen) ==
    /\ mode = Unset
    /\ E_target' = target
    /\ mode' = m
    /\ chosen_family' = chosen
    /\ \E page \in {Script(phantoms, target, m, chosen)} :
          /\ families' = page.families
          /\ all_measured' = page.all_measured
          /\ feasible' = page.feasible
          /\ feasible_sorted' = page.feasible_sorted
          /\ banner' = page.banner
          /\ recipes' = page.recipes
          /\ bounds' = page.bounds
          /\ raised' = page.raised
    /\ UNCHANGED <<phantoms, probe, labelVars>>

\* ------------------------------------------------------ the inputs

\* a row of the loaded table; the label stands for "<family>_<t>T"
Row(fam, t, E) == <<<<fam, t>>, fam, t, E>>

Rows == {Row(fam, t, E) : fam \in DataFamilies, t \in 0..MaxT, E \in 1..MaxE}

Tables == UNION {[1..n -> Rows] : n \in 0..MaxRows}

\* targets the number_input admits (min_value=0.0)
Targets == {RInt(n) : n \in 0..(MaxE + 1)}

Modes == {AUTO, FORCE}

FamilyChoices == {FAMILIES_ORDER[i] : i \in DOMAIN FAMILIES_ORDER}

\* nothing has run yet
AppIdle ==
    /\ E_target = NaN
    /\ mode = Unset
    /\ chosen_family = Nothing
    /\ families = [ok |-> FALSE]
    /\ all_measured = <<>>
    /\ feasible = <<>>
    /\ feasible_sorted = <<>>
    /\ banner = Nothing
    /\ recipes = <<>>
    /\ bounds = None
    /\ raised = Nothing

NoProbe ==
    [op |-> "none", at |-> 0, target |-> NaN, raised |-> Nothing,
     t_star |-> 0, value |-> NaN]

ProbeIdle == probe = NoProbe

NotLoaded == [op |-> "none", raised |-> Nothing, rows |-> <<>>]

LabelIdle ==
    /\ sample_labels = <<>>
    /\ appParse = NotLoaded
    /\ scriptParse = NotLoaded

Init ==
    /\ phantoms \in Tables
    /\ AppIdle
    /\ ProbeIdle
    /\ LabelIdle

RunAuto == \E target \in Targets : Run(target, AUTO, Nothing)

RunForce == \E target \in Targets, fam \in FamilyChoices : Run(target, FORCE, fam)

\* the user touches a widget: streamlit drops the page and every module-level
\* name, and the script runs again from the top
Rerun ==
    /\ mode # Unset
    /\ E_target' = NaN
    /\ mode' = Unset
    /\ chosen_family' = Nothing
    /\ families' = [ok |-> FALSE]
    /\ all_measured' = <<>>
    /\ feasible' = <<>>
    /\ feasible_sorted' = <<>>
    /\ banner' = Nothing
    /\ recipes' = <<>>
    /\ bounds' = None
    /\ raised' = Nothing
    /\ UNCHANGED <<phantoms, probe, labelVars>>

Next == RunAuto \/ RunForce \/ Rerun

Spec == Init /\ [][Next]_vars


\* ------------------------------- tables with two measurements a family

\* a family's block: nothing, or its measurements at 0 and MaxT percent
Blocks(fam) ==
    {<<>>} \cup {<<Row(fam, 0, E0), Row(fam, MaxT, E1)>> : E0 \in 1..MaxE, E1 \in 1..MaxE}

Reverse(s) == [i \in DOMAIN s |-> s[Len(s) + 1 - i]]

PairedTables ==
    {IF up THEN a \o b \o c ELSE Reverse(a \o b \o c) :
        a \in Blocks("A10"), b \in Blocks("EF10"), c \in Blocks("EF30"),
        up \in BOOLEAN}

InitPaired ==
    /\ phantoms \in PairedTables
    /\ AppIdle
    /\ ProbeIdle
    /\ LabelIdle

SpecPaired == InitPaired /\ [][Next]_vars

\* --------------------------- the interpolant and the inverter, called

\* one family's measurements at distinct concentrations, in rising order
RECURSIVE CurvesFrom(_)
CurvesFrom(t) ==
    IF t > MaxT THEN {<<>>}
    ELSE LET rest == CurvesFrom(t + 1)
         IN  rest \cup {<<Row("EF10", t, E)>> \o r : E \in 1..(MaxE + 1), r \in rest}

Curves == {c \in CurvesFrom(0) : Len(c) >= 2}

\* targets on the half kPa
HalfTargets == {Rat(n, 2) : n \in 0..(2 * (MaxE + 1))}

\* grid positions from one percent below 0 to one percent above MaxT
Positions == (0 - Res)..((MaxT + 1) * Res)

TheModel == families.d["EF10"]

\* family_model["interp"](t) at grid position g
Evaluate(g) ==
    /\ probe' = [op |-> "evaluate", at |-> g, target |-> NaN, raised |-> Nothing,
                 t_star |-> 0, value |-> Call(TheModel.interp, g)]
    /\ UNCHANGED <<phantoms, appVars, labelVars>>

\* what a call of invert_family left: the pair, or the exception
Inverted(opname, g, target, r) ==
    [op |-> opname, at |-> g, target |-> target,
     raised |-> IF r.ok THEN Nothing ELSE "ValueError",
     t_star |-> IF r.ok THEN r.t_star ELSE 0,
     value |-> IF r.ok THEN r.E_pred ELSE NaN]

\* invert_family(family_model, target)
Invert(target) ==
    /\ probe' = Inverted("invert", 0, target, invert_family(TheModel, target))
    /\ UNCHANGED <<phantoms, appVars, labelVars>>

\* invert_family(family_model, v) for the value v just evaluated at g
InvertValue(g, v) ==
    /\ probe' = Inverted("roundtrip", g, v, invert_family(TheModel, v))
    /\ UNCHANGED <<phantoms, appVars, labelVars>>

\* invert_family(family_model, family_model["interp"](t)) for t in the domain
RoundTrip(g) ==
    /\ TheModel.tmin * Res <= g
    /\ g <= TheModel.tmax * Res
    /\ InvertValue(g, Call(TheModel.interp, g))

InitInvert ==
    /\ phantoms \in Curves
    /\ E_target = NaN
    /\ mode = Unset
    /\ chosen_family = Nothing
    /\ families = build_family_models(phantoms)
    /\ all_measured = <<>>
    /\ feasible = <<>>
    /\ feasible_sorted = <<>>
    /\ banner = Nothing
    /\ recipes = <<>>
    /\ bounds = None
    /\ raised = Nothing
    /\ ProbeIdle
    /\ LabelIdle

NextInvert ==
    \/ \E g \in Positions : Evaluate(g)
    \/ \E target \in HalfTargets : Invert(target)
    \/ \E g \in Positions : RoundTrip(g)

SpecInvert == InitInvert /\ [][NextInvert]_vars

\* ------------------------------------------------ label decomposition

DigitChars == <<"0", "1", "2", "3", "4", "5", "6", "7", "8", "9">>

IsDigit(c) == \E i \in DOMAIN DigitChars : DigitChars[i] = c

DigitValue(c) == (CHOOSE i \in DOMAIN DigitChars : DigitChars[i] = c) - 1

\* position of the first ch in s, 0 when there is none
IndexOf(s, ch) ==
    IF \E i \in DOMAIN s : s[i] = ch
    THEN CHOOSE i \in DOMAIN s : s[i] = ch /\ \A j \in 1..(i - 1) : s[j] # ch
    ELSE 0

\* s.split("_", 1), the first separator at position i
SplitOnceAt(s, i) ==
    IF i = 0 THEN <<s>> ELSE <<SubSeq(s, 1, i - 1), SubSeq(s, i + 1, Len(s))>>

SplitOnce(s) == SplitOnceAt(s, IndexOf(s, "_"))

\* s.split("_")
RECURSIVE SplitAll(_)
SplitAllAt(s, i) ==
    IF i = 0 THEN <<s>>
    ELSE <<SubSeq(s, 1, i - 1)>> \o SplitAll(SubSeq(s, i + 1, Len(s)))

SplitAll(s) == SplitAllAt(s, IndexOf(s, "_"))

\* s.replace(old, new) for a one-character old and a string new
RECURSIVE Replace(_, _, _)
Replace(s, old, new) ==
    IF s = <<>> THEN <<>>
    ELSE (IF Head(s) = old THEN new ELSE <<Head(s)>>) \o Replace(Tail(s), old, new)

RECURSIVE Pow10(_)
Pow10(k) == IF k = 0 THEN 1 ELSE 10 * Pow10(k - 1)

\* the number a string of digits writes
RECURSIVE DigitsValue(_)
DigitsValue(s) ==
    IF s = <<>> THEN 0
    ELSE 10 * DigitsValue(SubSeq(s, 1, Len(s) - 1)) + DigitValue(s[Len(s)])

\* float(s) for s of digits and points: digits around at most one point
FloatAt(s, dot) ==
    IF dot = 0 THEN [ok |-> TRUE, v |-> Rat(DigitsValue(s), 1)]
    ELSE [ok |-> TRUE,
          v |-> Rat(DigitsValue(SubSeq(s, 1, dot - 1) \o SubSeq(s, dot + 1, Len(s))),
                    Pow10(Len(s) - dot))]

Float(s) ==
    IF \/ \E i \in DOMAIN s : ~IsDigit(s[i]) /\ s[i] # "."
       \/ Cardinality({i \in DOMAIN s : s[i] = "."}) > 1
       \/ ~\E i \in DOMAIN s : IsDigit(s[i])
    THEN [ok |-> FALSE, v |-> NaN]
    ELSE FloatAt(s, IndexOf(s, "."))

\* the unit marker dropped and the underscore made a decimal point
Normalized(s) == Replace(Replace(s, "T", <<>>), "_", <<".">>)

\* a loaded row, or the exception that ended the load
Parsed(lab, family, x) ==
    IF x.ok THEN [raised |-> Nothing, row |-> <<lab, family, x.v>>]
    ELSE [raised |-> "ValueError", row |-> <<>>]

\* parse_thinner_from_label on the parts of label.split("_", 1), and the
\* family of load_phantoms
AppRowFrom(lab, parts) ==
    IF Len(parts) < 2 THEN [raised |-> "IndexError", row |-> <<>>]
    ELSE Parsed(lab, parts[1], Float(Normalized(parts[2])))

AppRow(lab) == AppRowFrom(lab, SplitOnce(lab))

\* the plotting script's loop body on the parts of label.split("_")
ScriptRowFrom(lab, parts) ==
    IF Len(parts) < 2 THEN [raised |-> "IndexError", row |-> <<>>]
    ELSE Parsed(lab, parts[1], Float(Normalized(parts[2])))

ScriptRow(lab) == ScriptRowFrom(lab, SplitAll(lab))

\* a loader's loop: the rows in order, ended by the first exception
Loaded(res) ==
    IF \E i \in DOMAIN res : res[i].raised # Nothing
    THEN [op |-> "load",
          raised |-> res[CHOOSE i \in DOMAIN res :
                            /\ res[i].raised # Nothing
                            /\ \A j \in 1..(i - 1) : res[j].raised = Nothing].raised,
          rows |-> <<>>]
    ELSE [op |-> "load", raised |-> Nothing, rows |-> [i \in DOMAIN res |-> res[i].row]]

\* load_phantoms of the app
AppLoad ==
    /\ appParse.op = "none"
    /\ appParse' = Loaded([i \in DOMAIN sample_labels |-> AppRow(sample_labels[i])])
    /\ UNCHANGED <<phantoms, appVars, probe, sample_labels, scriptParse>>

\* the CSV loop of the plotting script
ScriptLoad ==
    /\ scriptParse.op = "none"
    /\ scriptParse' = Loaded([i \in DOMAIN sample_labels |-> ScriptRow(sample_labels[i])])
    /\ UNCHANGED <<phantoms, appVars, probe, sample_labels, appParse>>

FamilyTokens == {<<"A", "1", "0">>, <<"E", "F", "1", "0">>}

Digits == {DigitChars[i + 1] : i \in 0..MaxDigit}

\* the whole percent: one or two digits
Wholes == {<<a>> : a \in Digits} \cup {<<a, b>> : a \in Digits, b \in Digits}

\* "<family>_<whole><sep><tenth>T"
MakeLabel(fam, whole, sep, tenth) == fam \o <<"_">> \o whole \o <<sep, tenth, "T">>

\* a table that writes the same sample both ways: "12_5" and "12.5"
LabelTables ==
    {<<MakeLabel(fam, w, "_", d), MakeLabel(fam, w, ".", d)>> :
        fam \in FamilyTokens, w \in Wholes, d \in Digits}

InitLabel ==
    /\ phantoms = <<>>
    /\ AppIdle
    /\ ProbeIdle
    /\ sample_labels \in LabelTables
    /\ appParse = NotLoaded
    /\ scriptParse = NotLoaded

NextLabel == AppLoad \/ ScriptLoad

SpecLabel == InitLabel /\ [][NextLabel]_vars


\* =============================================================== claims

\* the measured values and concentrations of a family, from the raw table
RawE(fam) == {phantoms[i][4] : i \in {j \in DOMAIN phantoms : phantoms[j][2] = fam}}
RawT(fam) == {phantoms[i][3] : i \in {j \in DOMAIN phantoms : phantoms[j][2] = fam}}
MinOf(S) == CHOOSE x \in S : \A y \in S : x <= y
MaxOf(S) == CHOOSE x \in S : \A y \in S : x >= y
DataFams == {phantoms[i][2] : i \in DOMAIN phantoms}
Listed == {FAMILIES_ORDER[i] : i \in DOMAIN FAMILIES_ORDER}

\* the target lies in the family's measured range, ends included
Covers(fam) ==
    /\ RLeq(RInt(MinOf(RawE(fam))), E_target)
    /\ RLeq(E_target, RInt(MaxOf(RawE(fam))))

InList(s, x) == \E i \in DOMAIN s : s[i] = x

\* a script run has ended
Ran == mode # Unset

COVERED == "Covered by validated data"
GAP == "Target is in a non-validated gap"

\* ---------------------------------------------------------------- C1
\* C1: in both modes a recipe is written for a family only when the target
\* is in that family's range and its concentration is in the family's
\* domain; a target the chosen family (force) or every family (auto) leaves
\* uncovered ends in a nearest-bounds report; and no run ends with neither a
\* recipe nor a nearest-bounds report.
C1_RecipeOrNearestBounds ==
    Ran =>
        /\ \A i \in DOMAIN recipes :
              /\ recipes[i].fam \in DataFams
              /\ Covers(recipes[i].fam)
              /\ MinOf(RawT(recipes[i].fam)) * Res <= recipes[i].t_star
              /\ recipes[i].t_star <= MaxOf(RawT(recipes[i].fam)) * Res
        /\ (mode = FORCE /\ chosen_family \in DataFams /\ ~Covers(chosen_family))
              => bounds # None
        /\ (mode = AUTO /\ \A fam \in DataFams : ~Covers(fam)) => bounds # None
        /\ recipes # <<>> \/ bounds # None

\* ---------------------------------------------------------------- C2
\* C2: an auto-select run over built models ends Covered exactly when some
\* family of the models has the target in [Emin, Emax], and ends Gap, with
\* the nearest bounds in place of a recipe, exactly when none has.
C2_CoveredIffSomeFamilyFeasible ==
    (Ran /\ mode = AUTO /\ families.ok) =>
        /\ banner = COVERED <=> \E fam \in DOMAIN families.d : InRange(families.d[fam], E_target)
        /\ (banner = GAP /\ bounds # None /\ recipes = <<>>)
              <=> ~\E fam \in DOMAIN families.d : InRange(families.d[fam], E_target)
        /\ banner \in {COVERED, GAP}

\* ---------------------------------------------------------------- C3
\* C3: after a run that built the models, a family is in the feasible list
\* exactly when the target lies between the least and the greatest raw
\* measured value of that family, both ends included; the list names only
\* families of the table; and the models are the ones built from the table,
\* their Emin and Emax the raw extremes.
C3_FeasibleIffInMeasuredRange ==
    (Ran /\ families.ok) =>
        /\ \A fam \in DataFams : InList(feasible, fam) <=> Covers(fam)
        /\ \A i \in DOMAIN feasible : feasible[i] \in DataFams
        /\ DOMAIN families.d = DataFams
        /\ \A fam \in DataFams :
              /\ families.d[fam].Emin = MinOf(RawE(fam))
              /\ families.d[fam].Emax = MaxOf(RawE(fam))
        /\ families = build_family_models(phantoms)

\* a run whose target sits on the least value of one family, feasible, and
\* on the greatest value of another, feasible too, while a third is not
C3_Witness ==
    /\ Ran
    /\ families.ok
    /\ \E f1 \in DataFams, f2 \in DataFams, f3 \in DataFams :
          /\ f1 # f2
          /\ E_target = RInt(MinOf(RawE(f1))) /\ MinOf(RawE(f1)) < MaxOf(RawE(f1))
          /\ E_target = RInt(MaxOf(RawE(f2))) /\ MinOf(RawE(f2)) < MaxOf(RawE(f2))
          /\ InList(feasible, f1) /\ InList(feasible, f2)
          /\ ~InList(feasible, f3)

\* ---------------------------------------------------------------- C4
Measurements == {<<phantoms[i][4], phantoms[i][1], phantoms[i][2], phantoms[i][3]>> :
                    i \in DOMAIN phantoms}

\* m is a measurement with the greatest value <= the target
GreatestBelow(m) ==
    /\ m \in Measurements
    /\ RLeq(RInt(m[1]), E_target)
    /\ \A n \in Measurements : RLeq(RInt(n[1]), E_target) => n[1] <= m[1]

\* m is a measurement with the least value >= the target
LeastAbove(m) ==
    /\ m \in Measurements
    /\ RLeq(E_target, RInt(m[1]))
    /\ \A n \in Measurements : RLeq(E_target, RInt(n[1])) => n[1] >= m[1]

\* C4: the index is the table's measurements in rising order of value, and
\* a nearest-bounds report has lower = a measurement with the greatest value
\* <= target, None when every measurement is above the target, and upper =
\* a measurement with the least value >= target, None when every
\* measurement is below it.
C4_NearestBounds ==
    (Ran /\ bounds # None) =>
        /\ Len(all_measured) = Len(phantoms)
        /\ {all_measured[i] : i \in DOMAIN all_measured} = Measurements
        /\ \A i \in 1..(Len(all_measured) - 1) : all_measured[i][1] <= all_measured[i + 1][1]
        /\ IF \E n \in Measurements : RLeq(RInt(n[1]), E_target)
           THEN GreatestBelow(bounds[1]) ELSE bounds[1] = None
        /\ IF \E n \in Measurements : RLeq(E_target, RInt(n[1]))
           THEN LeastAbove(bounds[2]) ELSE bounds[2] = None

\* a report for a target below every measurement of two families: no lower
\* bound, and the least measurement as upper
C4_Witness ==
    /\ Ran
    /\ bounds # None
    /\ Len(phantoms) >= 4
    /\ bounds[1] = None
    /\ bounds[2] # None
    /\ \A n \in Measurements : bounds[2][1] <= n[1]
    /\ \E n \in Measurements : bounds[2][1] < n[1]

\* ---------------------------------------------------------------- C5
ValueMeasured == \E n \in Measurements : RInt(n[1]) = E_target

\* C5 as stated: a target equal to a measurement's value is reported with
\* one and the same measurement as lower and as upper bound.
C5_SameMeasurementBothBounds ==
    (Ran /\ bounds # None /\ ValueMeasured) =>
        /\ bounds[1] = bounds[2]
        /\ bounds[1] \in Measurements
        /\ RInt(bounds[1][1]) = E_target

\* C5 amended: a target equal to a measurement's value is reported with a
\* lower and an upper bound that are measurements of exactly that value; the
\* two are the same measurement when one measurement alone has that value.
C5_BothBoundsHaveTheValue ==
    (Ran /\ bounds # None /\ ValueMeasured) =>
        /\ bounds[1] \in Measurements
        /\ bounds[2] \in Measurements
        /\ RInt(bounds[1][1]) = E_target
        /\ RInt(bounds[2][1]) = E_target
        /\ Cardinality({n \in Measurements : RInt(n[1]) = E_target}) = 1
              => bounds[1] = bounds[2]

\* a report for a target that one measurement alone has as its value
C5_Witness ==
    /\ Ran
    /\ bounds # None
    /\ Cardinality({n \in Measurements : RInt(n[1]) = E_target}) = 1
    /\ bounds[1] # None
    /\ bounds[1] = bounds[2]
    /\ \E n \in Measurements : n[1] < bounds[1][1]
    /\ \E n \in Measurements : n[1] > bounds[1][1]

\* ---------------------------------------------------------------- C6
\* the grid position lies strictly outside the family's measured domain
Outside(g) == g < MinOf(RawT("EF10")) * Res \/ g > MaxOf(RawT("EF10")) * Res

\* C6 as stated: evaluating the interpolant strictly outside [tmin, tmax]
\* fails with an error and returns no number.
C6_OutsideRaises ==
    (probe.op = "evaluate" /\ Outside(probe.at)) =>
        /\ probe.raised # Nothing
        /\ probe.value = NaN

\* C6 amended: evaluating the interpolant strictly outside [tmin, tmax]
\* raises nothing and returns nan, never a finite value.
C6_OutsideIsNaN ==
    (probe.op = "evaluate" /\ Outside(probe.at)) =>
        /\ probe.raised = Nothing
        /\ probe.value = NaN

\* an evaluation a grid step above tmax of a three-point family
C6_Witness ==
    /\ probe.op = "evaluate"
    /\ Len(phantoms) = 3
    /\ probe.at = MaxOf(RawT("EF10")) * Res + 1
    /\ probe.value = NaN

\* ---------------------------------------------------------------- C7
\* the family's values in rising order of concentration
CurveE == [i \in DOMAIN phantoms |-> SortedByKey(phantoms, 3)[i][4]]

Monotone ==
    \/ \A i \in 1..(Len(CurveE) - 1) : CurveE[i] <= CurveE[i + 1]
    \/ \A i \in 1..(Len(CurveE) - 1) : CurveE[i] >= CurveE[i + 1]

StrictlyMonotone ==
    \/ \A i \in 1..(Len(CurveE) - 1) : CurveE[i] < CurveE[i + 1]
    \/ \A i \in 1..(Len(CurveE) - 1) : CurveE[i] > CurveE[i + 1]

\* inverting the value evaluated at probe.at gave probe.at back, in the domain
RoundTripExact ==
    /\ probe.raised = Nothing
    /\ probe.t_star = probe.at
    /\ MinOf(RawT("EF10")) * Res <= probe.t_star
    /\ probe.t_star <= MaxOf(RawT("EF10")) * Res

\* C7 as stated: for a family of at least 2 points with monotone values and
\* c in [tmin, tmax], invert_family(model, evaluate(c)) returns c, in the
\* domain.
C7_RoundTripMonotone ==
    (probe.op = "roundtrip" /\ Len(phantoms) >= 2 /\ Monotone) => RoundTripExact

\* C7 amended: the same for strictly monotone values (no two measurements
\* of the family share a value).
C7_RoundTripStrictlyMonotone ==
    (probe.op = "roundtrip" /\ Len(phantoms) >= 2 /\ StrictlyMonotone) => RoundTripExact

\* a round trip from a concentration between two knots of a strictly
\* monotone three-point family that is not a straight line
C7_Witness ==
    /\ probe.op = "roundtrip"
    /\ Len(phantoms) = 3
    /\ StrictlyMonotone
    /\ CurveE[2] - CurveE[1] # CurveE[3] - CurveE[2]
    /\ probe.at % Res # 0
    /\ probe.t_star = probe.at

\* ---------------------------------------------------------------- C8
\* sign of evaluate(tmin) - target and of evaluate(tmax) - target
SignAtTmin == RSign(RSub(Call(TheModel.interp, MinOf(RawT("EF10")) * Res), probe.target))
SignAtTmax == RSign(RSub(Call(TheModel.interp, MaxOf(RawT("EF10")) * Res), probe.target))

\* C8: when evaluate(tmin) - target and evaluate(tmax) - target are both
\* strictly positive or both strictly negative, invert_family raises and
\* returns no pair.
C8_NoSignChangeRaises ==
    (probe.op = "invert" /\ SignAtTmin * SignAtTmax > 0) =>
        /\ probe.raised = "ValueError"
        /\ probe.value = NaN

\* an inversion refused for a target inside the range of a family whose
\* values rise and fall again
C8_Witness ==
    /\ probe.op = "invert"
    /\ SignAtTmin * SignAtTmax > 0
    /\ RLeq(RInt(MinOf(RawE("EF10"))), probe.target)
    /\ RLeq(probe.target, RInt(MaxOf(RawE("EF10"))))
    /\ ~Monotone
    /\ probe.raised = "ValueError"

\* ---------------------------------------------------------------- C9
FamilyCurve(fam) == SortedByKey(SelectSeqBy(phantoms, fam), 3)

\* a family the interpolator accepts and the inverter can invert anywhere in
\* its range: two or more points, distinct concentrations, values strictly
\* monotone
Sound(fam) ==
    /\ Len(FamilyCurve(fam)) >= 2
    /\ \A i \in 1..(Len(FamilyCurve(fam)) - 1) : FamilyCurve(fam)[i][3] < FamilyCurve(fam)[i + 1][3]
    /\ \/ \A i \in 1..(Len(FamilyCurve(fam)) - 1) : FamilyCurve(fam)[i][4] < FamilyCurve(fam)[i + 1][4]
       \/ \A i \in 1..(Len(FamilyCurve(fam)) - 1) : FamilyCurve(fam)[i][4] > FamilyCurve(fam)[i + 1][4]

\* C9: an auto-select run writes a recipe for every listed family that is
\* sound and feasible for the target, whatever is wrong with another family.
C9_SiblingsStillReported ==
    (Ran /\ mode = AUTO) =>
        \A fam \in DataFams \cap Listed :
            (Sound(fam) /\ Covers(fam)) => \E i \in DOMAIN recipes : recipes[i].fam = fam

\* --------------------------------------------------------------- C10
LoadersDone == {r \in {appParse, scriptParse} : r.op = "load"}

\* C10: every loader decomposes the underscore-encoded label (row 1) and the
\* dot-encoded label (row 2) of the same sample to the same family and the
\* same concentration; "A10_12_5T" and "A10_12.5T" both give family "A10"
\* and concentration 12.5.
C10_BothEncodingsAgree ==
    \A r \in LoadersDone :
        /\ r.raised = Nothing
        /\ r.rows[1][2] = r.rows[2][2]
        /\ r.rows[1][3] = r.rows[2][3]
        /\ sample_labels[1] = <<"A", "1", "0", "_", "1", "2", "_", "5", "T">>
              => /\ r.rows[1][2] = <<"A", "1", "0">>
                 /\ r.rows[1][3] = Rat(25, 2)

====
